---- MODULE Spec2Model ----
(***************************************************************************)
(* Pedigree viewer (frontend/src/App.tsx): the record normalizer, the      *)
(* Ahnentafel tree builder (parents of k are 2k and 2k+1), the load        *)
(* handler and the per-node disclosure overrides with their toggle.        *)
(***************************************************************************)
EXTENDS Integers, Sequences, FiniteSets, TLC

VARIABLES
    pc,               \* position of the one load: "mounted", "fetching", "settled"
    initialLoadDone,  \* useRef(false), App.tsx:346
    fetched,          \* what the fetch settled with (Undefined until then)
    tree,             \* useState<NormalizedPerson | null>(null)
    peopleCount,      \* useState(0)
    loading,          \* useState(false)
    error,            \* useState('')
    overrides         \* useState<Overrides>({})

vars == <<pc, initialLoadDone, fetched, tree, peopleCount, loading, error, overrides>>

(***************************************************************************)
(* Bounds of the input space.                                              *)
(***************************************************************************)
MaxLen == 3       \* longest enumerated record list
MaxChain == 5     \* deepest ancestor chain 1, 2, 4, ... among the pedigree inputs
MaxSibling == 5   \* pedigree inputs also draw from the ids 1..MaxSibling

DEFAULT_DEPTH == 4

(***************************************************************************)
(* JavaScript values, tagged by type.                                      *)
(***************************************************************************)
Undefined == [t |-> "undefined"]
Null == [t |-> "null"]
NaN == [t |-> "nan"]
Num(n) == [t |-> "num", n |-> n]
Str(s) == [t |-> "str", s |-> s]
Arr(items) == [t |-> "arr", items |-> items]
Obj(fields) == [t |-> "obj", f |-> fields]

Nullish(v) == v.t \in {"undefined", "null"}

\* a ?? b
Coalesce(a, b) == IF Nullish(a) THEN b ELSE a

\* !v is false
Truthy(v) ==
    CASE v.t \in {"undefined", "null", "nan"} -> FALSE
      [] v.t = "num" -> v.n # 0
      [] v.t = "str" -> v.s # ""
      [] OTHER -> TRUE

\* raw?.key and raw[key]: a property read; undefined on a missing key, on a
\* primitive and (through ?.) on null and undefined.
Get(raw, key) ==
    IF raw.t = "obj" /\ key \in DOMAIN raw.f THEN raw.f[key] ELSE Undefined

\* The numeric strings of the inputs, with the number each one denotes.
NumericStrings == [s \in {"", "0", "1", "2", "3", "-1"} |->
    CASE s = "" -> 0 [] s = "0" -> 0 [] s = "1" -> 1
      [] s = "2" -> 2 [] s = "3" -> 3 [] s = "-1" -> 0 - 1]

\* Number(value)
RECURSIVE JsNumber(_)
JsNumber(value) ==
    CASE value.t = "num" -> value
      [] value.t = "null" -> Num(0)
      [] value.t = "str" ->
            IF value.s \in DOMAIN NumericStrings THEN Num(NumericStrings[value.s]) ELSE NaN
      [] value.t = "arr" ->
            IF Len(value.items) = 0 THEN Num(0)
            ELSE IF Len(value.items) = 1 /\ value.items[1].t \in {"num", "str"}
                 THEN JsNumber(value.items[1])
                 ELSE NaN
      [] OTHER -> NaN

(***************************************************************************)
(* Record Normalizer.                                                      *)
(***************************************************************************)
parseId(value) ==
    IF Nullish(value) THEN Null
    ELSE LET parsed == JsNumber(value)
         IN IF parsed.t = "num" THEN parsed ELSE Null

\* String(candidate) of the values the inputs hold in display fields
JsString(v) == IF v.t = "str" THEN v.s ELSE "?"

RECURSIVE readField(_, _)
readField(raw, keys) ==
    IF keys = <<>> THEN ""
    ELSE LET candidate == Get(raw, Head(keys))
         IN IF ~Nullish(candidate) THEN JsString(candidate)
            ELSE readField(raw, Tail(keys))

fieldMapName == <<"Personne", "name">>

\* Null, or the canonical person; of the eleven display fields the model
\* carries name, the other ten are read the same way and never consulted.
normalizePerson(raw) ==
    LET id == Coalesce(parseId(Get(raw, "id")),
              Coalesce(parseId(Get(raw, "ID")),
              Coalesce(parseId(Get(raw, "Id")),
              Coalesce(parseId(Get(raw, "sosa")),
                       parseId(Get(raw, "Sosa"))))))
    IN IF id.t = "null" THEN Null
       ELSE [t |-> "person",
             id |-> id.n,
             generation |-> Coalesce(parseId(Get(raw, "generation")), Null),
             name |-> readField(raw, fieldMapName),
             children |-> <<>>]

RECURSIVE FilterBoolean(_)
FilterBoolean(list) ==
    IF list = <<>> THEN <<>>
    ELSE IF Truthy(Head(list)) THEN <<Head(list)>> \o FilterBoolean(Tail(list))
         ELSE FilterBoolean(Tail(list))

normalizeDataset(data) ==
    IF ~Truthy(data) THEN <<>>
    ELSE LET list ==
                 IF data.t = "arr" THEN data.items
                 ELSE IF Get(data, "people").t = "arr" THEN Get(data, "people").items
                 ELSE IF Get(data, "records").t = "arr" THEN Get(data, "records").items
                 ELSE <<data>>
         IN FilterBoolean([i \in 1..Len(list) |-> normalizePerson(list[i])])

(***************************************************************************)
(* Ancestor Tree Builder.                                                  *)
(***************************************************************************)
\* map.set(person.id, {...person, children: []}) for each person in order:
\* the Map as a function from the ids set to the entry last set for each.
RECURSIVE buildMap(_)
buildMap(people) ==
    IF people = <<>> THEN <<>>
    ELSE LET n == Len(people)
             person == people[n]
             before == buildMap(SubSeq(people, 1, n - 1))
         IN [k \in DOMAIN before \cup {person.id} |->
                IF k = person.id THEN [person EXCEPT !.children = <<>>] ELSE before[k]]

\* The call stack running out (RangeError) when the recursion comes back to
\* an identifier that is still being built.
StackOverflow == [t |-> "RangeError"]

\* A builder that passes the inherited number on whatever the entity stores.
nodeGeneration_inherited(node, generation) == Num(generation)

\* generation: node.generation ?? generation
nodeGeneration(node, generation) == Coalesce(node.generation, Num(generation))

\* A builder that attaches 2k+1 only under a 2k that was built.
nodeChildren_leftFirst(left, right) ==
    IF Truthy(left) THEN FilterBoolean(<<left, right>>) ELSE <<>>

\* children: [left, right].filter(Boolean)
nodeChildren(left, right) == FilterBoolean(<<left, right>>)

\* active: the identifiers whose calls are on the stack.  A call on one of
\* them repeats that call's recursion without end.
RECURSIVE buildTreeFrom(_, _, _, _)
buildTreeFrom(rootId, peopleMap, generation, active) ==
    IF rootId \in active THEN StackOverflow
    ELSE IF rootId \notin DOMAIN peopleMap THEN Null
    ELSE LET node == peopleMap[rootId]
             leftId == rootId * 2
             rightId == rootId * 2 + 1
             left == IF leftId \in DOMAIN peopleMap
                     THEN buildTreeFrom(leftId, peopleMap, generation + 1, active \cup {rootId})
                     ELSE Null
             right == IF rightId \in DOMAIN peopleMap
                      THEN buildTreeFrom(rightId, peopleMap, generation + 1, active \cup {rootId})
                      ELSE Null
         IN IF left = StackOverflow \/ right = StackOverflow THEN StackOverflow
            ELSE [node EXCEPT !.generation = nodeGeneration(node, generation),
                              !.children = nodeChildren(left, right)]

buildTree(rootId, peopleMap, generation) ==
    buildTreeFrom(rootId, peopleMap, generation, {})

Min(S) == CHOOSE m \in S : \A x \in S : m <= x

findRootId(peopleMap) ==
    IF DOMAIN peopleMap = {} THEN Null
    ELSE IF 1 \in DOMAIN peopleMap THEN Num(1)
    ELSE Num(Min(DOMAIN peopleMap))

(***************************************************************************)
(* Disclosure State Engine (PersonCard).                                   *)
(***************************************************************************)
EmptyOverrides == <<>>

\* overrides[node.id]
overrideOf(ov, id) == IF id \in DOMAIN ov THEN ov[id] ELSE "undefined"

Max(a, b) == IF a >= b THEN a ELSE b

\* An engine in which expand keeps the inherited budget.
effectiveDepth_noForce(override, incomingDepth) ==
    IF override = "collapse" THEN 1 ELSE Max(incomingDepth, 1)

effectiveDepth(override, incomingDepth) ==
    IF override = "collapse" THEN 1
    ELSE IF override = "expand" THEN DEFAULT_DEPTH
    ELSE Max(incomingDepth, 1)

hasChildren(node) == Len(node.children) > 0

showChildren(node, depth) == hasChildren(node) /\ depth > 1

\* An engine that hands its own budget down undiminished.
childDepth_same(depth) == Max(depth, 0)

childDepth(depth) == Max(depth - 1, 0)

\* One render pass from node down: the cards it puts on screen, each with
\* the budget it received and the isOpen its toggle closes over.
RECURSIVE PersonCard(_, _, _)
PersonCard(node, incomingDepth, ov) ==
    LET depth == effectiveDepth(overrideOf(ov, node.id), incomingDepth)
        isOpen == showChildren(node, depth)
        card == [id |-> node.id, incomingDepth |-> incomingDepth, isOpen |-> isOpen]
    IN {card} \cup
       (IF isOpen
        THEN UNION {PersonCard(node.children[i], childDepth(depth), ov) :
                        i \in 1..Len(node.children)}
        ELSE {})

\* A toggle that writes the state the node is already in.
toggle_inverted(prev, id, isOpen) ==
    [k \in DOMAIN prev \cup {id} |->
        IF k = id THEN (IF isOpen THEN "expand" ELSE "collapse") ELSE prev[k]]

\* A toggle that does not spread prev.
toggle_dropPrev(prev, id, isOpen) ==
    [k \in {id} |-> IF isOpen THEN "collapse" ELSE "expand"]

\* setOverrides((prev) => ({...prev, [node.id]: isOpen ? 'collapse' : 'expand'}))
toggle(prev, id, isOpen) ==
    [k \in DOMAIN prev \cup {id} |->
        IF k = id THEN (IF isOpen THEN "collapse" ELSE "expand") ELSE prev[k]]

\* What App renders below the header: the cards, when a tree is shown.
Cards ==
    IF ~loading /\ error = "" /\ tree.t = "person"
    THEN PersonCard(tree, DEFAULT_DEPTH, overrides)
    ELSE {}

(***************************************************************************)
(* loadFile.                                                               *)
(***************************************************************************)
Response(status, body) == [t |-> "response", status |-> status, body |-> body]
NetworkError == [t |-> "rejected"]
InvalidJson == [t |-> "invalid"]

responseOk(response) == response.status >= 200 /\ response.status <= 299

Thrown(message) == [t |-> "error", message |-> message]

openErrorMessage(status) ==
    CASE status = 404 -> "Impossible d'ouvrir /export/genealogy.json (code 404)."
      [] status = 500 -> "Impossible d'ouvrir /export/genealogy.json (code 500)."
      [] OTHER -> "Impossible d'ouvrir /export/genealogy.json (code ?)."

\* !rootId
noRootId(rootId) == ~Truthy(rootId)

\* The try block from the settled fetch on: the error it throws, or the
\* three values it sets.
tryLoad(response) ==
    IF response.t = "rejected" THEN Thrown("Failed to fetch")
    ELSE IF ~responseOk(response) THEN Thrown(openErrorMessage(response.status))
    ELSE IF response.body.t = "invalid" THEN Thrown("Unexpected token in JSON")
    ELSE LET people == normalizeDataset(response.body)
         IN IF Len(people) = 0
            THEN Thrown("Aucune entree valide trouvee dans ce fichier.")
            ELSE LET peopleMap == buildMap(people)
                     rootId == findRootId(peopleMap)
                 IN IF noRootId(rootId)
                    THEN Thrown("Impossible de determiner la racine (id le plus petit manquant).")
                    ELSE LET treeBuilt == buildTree(rootId.n, peopleMap, 1)
                         IN IF treeBuilt = StackOverflow
                            THEN Thrown("Maximum call stack size exceeded")
                            ELSE IF ~Truthy(treeBuilt)
                            THEN Thrown("L'arbre n'a pas pu etre construit.")
                            ELSE [t |-> "loaded",
                                  overrides |-> [k \in {rootId.n} |-> "expand"],
                                  peopleCount |-> Len(people),
                                  tree |-> treeBuilt]

\* A catch block that loses the message.
catchMessage_blank(err) == ""

\* (err as Error).message ?? String(err)
catchMessage(err) == err.message

(***************************************************************************)
(* Inputs: what the fetch can settle with.                                 *)
(***************************************************************************)
BoundedSeq(S, n) == UNION {[1..k -> S] : k \in 0..n}

RecordIds == {0 - 1, 0, 1, 2}

Records ==
    {Obj([id |-> Num(i)]) : i \in RecordIds}
    \cup {Obj([id |-> Num(i), generation |-> Num(5)]) : i \in RecordIds}
    \cup {Obj([foo |-> Num(1)])}

RecordLists == {Arr(l) : l \in BoundedSeq(Records, MaxLen)}

RECURSIVE Pow2(_)
Pow2(i) == IF i = 0 THEN 1 ELSE 2 * Pow2(i - 1)

PedigreeIds == {Pow2(i) : i \in 0..(MaxChain - 1)} \cup (1..MaxSibling)

RECURSIVE Ascending(_)
Ascending(S) ==
    IF S = {} THEN <<>>
    ELSE LET m == Min(S) IN <<Obj([id |-> Num(m)])>> \o Ascending(S \ {m})

Pedigrees == {Arr(Ascending(S)) : S \in SUBSET PedigreeIds}

Sample ==
    <<Null,
      Num(3),
      Obj([sosa |-> Str("2")]),
      Obj([ID |-> Num(1), name |-> Str("A")]),
      Obj([id |-> Str("abc"), Sosa |-> Num(3), Personne |-> Str("B"),
           generation |-> Str("x")]),
      Obj([Id |-> Str("1"), Personne |-> Null, name |-> Str("C"), generation |-> Num(0)])>>

Shapes ==
    {Null, Undefined, Num(0), Str(""), Num(7), Str("abc"),
     Obj([id |-> Num(1)]),
     Obj([people |-> Arr(Sample)]),
     Obj([records |-> Arr(Sample)]),
     Obj([people |-> Num(1), records |-> Arr(<<Obj([id |-> Num(2)])>>)]),
     Obj([people |-> Arr(<<>>), records |-> Arr(Sample)]),
     Arr(Sample)}

Bodies == RecordLists \cup Pedigrees \cup Shapes

Responses ==
    {Response(200, b) : b \in Bodies \cup {InvalidJson}}
    \cup {Response(s, Undefined) : s \in {404, 500}}
    \cup {NetworkError}

(***************************************************************************)
(* The application.                                                        *)
(***************************************************************************)
Init ==
    /\ pc = "mounted"
    /\ initialLoadDone = FALSE
    /\ fetched = Undefined
    /\ tree = Null
    /\ peopleCount = 0
    /\ loading = FALSE
    /\ error = ""
    /\ overrides = EmptyOverrides

\* The mount effect and loadFile up to its await of the fetch.
LoadFile ==
    /\ ~initialLoadDone
    /\ initialLoadDone' = TRUE
    /\ loading' = TRUE
    /\ error' = ""
    /\ tree' = Null
    /\ pc' = "fetching"
    /\ UNCHANGED <<fetched, peopleCount, overrides>>

\* loadFile from the settled fetch to the end of its finally block.
LoadSettle(response) ==
    /\ pc = "fetching"
    /\ pc' = "settled"
    /\ fetched' = response
    /\ LET result == tryLoad(response)
       IN IF result.t = "loaded"
          THEN /\ overrides' = result.overrides
               /\ peopleCount' = result.peopleCount
               /\ tree' = result.tree
               /\ error' = error
          ELSE /\ error' = catchMessage(result)
               /\ UNCHANGED <<overrides, peopleCount, tree>>
    /\ loading' = FALSE
    /\ UNCHANGED initialLoadDone

\* A click on the card of a rendered node.
Toggle(card) ==
    /\ card \in Cards
    /\ overrides' = toggle(overrides, card.id, card.isOpen)
    /\ UNCHANGED <<pc, initialLoadDone, fetched, tree, peopleCount, loading, error>>

Next ==
    \/ LoadFile
    \/ \E response \in Responses : LoadSettle(response)
    \/ \E card \in Cards : Toggle(card)

Spec == Init /\ [][Next]_vars

(***************************************************************************)
(* Vocabulary of the properties.                                           *)
(***************************************************************************)
Settled == pc = "settled"

\* The fetch gave a document that parsed.
Parsed == Settled /\ fetched.t = "response" /\ responseOk(fetched) /\ fetched.body.t # "invalid"

People == normalizeDataset(fetched.body)
PeopleMap == buildMap(People)
Ids == {People[i].id : i \in 1..Len(People)}

TreeShown == tree.t = "person"

\* The nodes of a tree, each with its depth (the root has depth 1) and the
\* identifier of its parent node (its own for the root).
RECURSIVE Placed(_, _, _)
Placed(node, depth, parentId) ==
    {[node |-> node, depth |-> depth, parent |-> parentId]}
    \cup UNION {Placed(node.children[i], depth + 1, node.id) : i \in 1..Len(node.children)}

TreeNodes == IF TreeShown THEN Placed(tree, 1, tree.id) ELSE {}

ChildIds(node) == {node.children[i].id : i \in 1..Len(node.children)}

IdsOf(cards) == {c.id : c \in cards}

\* Some child of the node with this identifier is on screen.
ChildrenOnScreen(cards, id) ==
    \E p \in TreeNodes : p.node.id = id /\ ChildIds(p.node) \cap IdsOf(cards) # {}

RootExpanded == [k \in {tree.id} |-> "expand"]

(***************************************************************************)
(* Disclosure properties.                                                  *)
(***************************************************************************)
\* The entries of ov, with the entry of id set to what a toggle writes when
\* the children of id are on screen (collapse) or not (expand).
Written(ov, id, showing) ==
    [k \in DOMAIN ov \cup {id} |->
        IF k = id THEN (IF showing THEN "collapse" ELSE "expand") ELSE ov[k]]

\* isOpen of the card of id in the render pass of the shown tree under ov
OpenUnder(ov, id) ==
    \E c \in PersonCard(tree, DEFAULT_DEPTH, ov) : c.id = id /\ c.isOpen

\* From no entry, closed: one toggle writes expand, the next collapse.
C1_TwoToggles ==
    \A c \in Cards :
        LET node == (CHOOSE p \in TreeNodes : p.node.id = c.id).node
            once == toggle(overrides, c.id, c.isOpen)
            twice == toggle(once, c.id, OpenUnder(once, c.id))
        IN (hasChildren(node) /\ c.id \notin DOMAIN overrides
                /\ ~ChildrenOnScreen(Cards, c.id))
            => /\ once[c.id] = "expand"
               /\ twice[c.id] = "collapse"
               /\ \A k \in DOMAIN overrides : once[k] = overrides[k] /\ twice[k] = overrides[k]

\* A step that changes the override mapping of a shown tree.
C1_ToggleStep ==
    (TreeShown /\ Settled /\ overrides' # overrides)
        => /\ tree' = tree
           /\ \E c \in Cards :
                overrides' = Written(overrides, c.id, ChildrenOnScreen(Cards, c.id))

\* C1 - Toggle postcondition.  A step that changes the override mapping of a
\* shown tree is the toggle of one rendered node X: X's entry becomes
\* collapse if children of X are on screen and expand otherwise, every other
\* entry stays as it was and the tree is the same.  And from any state, for a
\* rendered X that has children, has no entry and does not show them, a
\* toggle leaves X's entry at expand and a second one at collapse.
C1_TogglePostcondition == [](C1_TwoToggles) /\ [][C1_ToggleStep]_vars

\* A node that has children, is not the root and was closed by a toggle.
C1_Witness ==
    \E p \in TreeNodes :
        /\ p.depth > 1
        /\ hasChildren(p.node)
        /\ p.node.id \in DOMAIN overrides
        /\ overrides[p.node.id] = "collapse"
        /\ p.node.id \in IdsOf(Cards)

\* C2 - Default disclosure horizon.  With budget DEFAULT_DEPTH at the root
\* and the override mapping empty or {root: expand}, the nodes on screen are
\* exactly those of depth 1 to DEFAULT_DEPTH, and a node of depth
\* DEFAULT_DEPTH does not show its children.
C2_DefaultHorizon ==
    TreeShown =>
        \A ov \in {EmptyOverrides, RootExpanded} :
            LET cards == PersonCard(tree, DEFAULT_DEPTH, ov)
            IN /\ IdsOf(cards) = {p.node.id : p \in {q \in TreeNodes : q.depth <= DEFAULT_DEPTH}}
               /\ \A p \in TreeNodes : p.depth = DEFAULT_DEPTH => ~OpenUnder(ov, p.node.id)

\* Right after the load of a chain of depth 5: depth 4 on screen, depth 5 not.
C2_Witness ==
    /\ TreeShown
    /\ overrides = RootExpanded
    /\ \E p \in TreeNodes : p.depth = DEFAULT_DEPTH + 1
    /\ \E p \in TreeNodes : p.depth = DEFAULT_DEPTH /\ p.node.id \in IdsOf(Cards)
    /\ \A p \in TreeNodes : p.depth = DEFAULT_DEPTH + 1 => p.node.id \notin IdsOf(Cards)

\* A step that changes the entry of a rendered node that has children.
C10_FlipStep ==
    \A c \in Cards :
        LET X == c.id
            node == (CHOOSE p \in TreeNodes : p.node.id = X).node
        IN (TreeShown /\ hasChildren(node) /\ overrideOf(overrides', X) # overrideOf(overrides, X))
            => /\ ChildrenOnScreen(Cards', X) <=> ~ChildrenOnScreen(Cards, X)
               /\ ~ChildrenOnScreen(Cards, X) =>
                    /\ ChildIds(node) \subseteq IdsOf(Cards')
                    /\ \A d \in Cards' :
                          d.id \in ChildIds(node) => d.incomingDepth = DEFAULT_DEPTH - 1

\* C10 - A toggle flips visibility whatever the inherited budget.  In a step
\* that changes the entry of a rendered node X that has children, X has
\* children on screen after the step iff it had none before; and when the
\* step opened X, each child of X is rendered with budget DEFAULT_DEPTH - 1.
C10_ToggleFlips == [][C10_FlipStep]_vars

\* A node at the edge of the default horizon was forced open: its child, of
\* depth DEFAULT_DEPTH + 1, is on screen with budget DEFAULT_DEPTH - 1.
C10_Witness ==
    \E p \in TreeNodes :
        /\ p.depth = DEFAULT_DEPTH
        /\ overrideOf(overrides, p.node.id) = "expand"
        /\ \E d \in Cards : d.id \in ChildIds(p.node) /\ d.incomingDepth = DEFAULT_DEPTH - 1

(***************************************************************************)
(* Tree builder properties.                                                *)
(***************************************************************************)
\* The identifiers among 2k, 2k+1 that the map holds, 2k first.
ParentsPresent(k, map) ==
    (IF 2 * k \in DOMAIN map THEN <<2 * k>> ELSE <<>>)
    \o (IF 2 * k + 1 \in DOMAIN map THEN <<2 * k + 1>> ELSE <<>>)

\* Every node of the tree has as children the nodes built for the present
\* ones of its 2k and 2k+1, in that order.
RECURSIVE ShapeOk(_, _, _)
ShapeOk(node, map, generation) ==
    LET want == ParentsPresent(node.id, map)
    IN /\ Len(node.children) = Len(want)
       /\ \A i \in 1..Len(want) :
            /\ node.children[i].id = want[i]
            /\ node.children[i] = buildTree(want[i], map, generation + 1)
            /\ ShapeOk(node.children[i], map, generation + 1)

\* C3 - Tree shape.  For the entity map of any parsed document and any
\* identifier k in it for which a node is built, the node's children are
\* exactly the nodes built for the present ones of 2k and 2k+1, 2k first, with
\* nothing standing for an absent one; so is every node of the loaded tree.
C3_TreeShape ==
    Parsed =>
        /\ \A k \in DOMAIN PeopleMap :
              LET built == buildTree(k, PeopleMap, 1)
              IN built.t = "person" => built.id = k /\ ShapeOk(built, PeopleMap, 1)
        /\ TreeShown => ShapeOk(tree, PeopleMap, 1)

\* The loaded tree of the ids 1..5, and a node whose 2k is absent and whose
\* 2k+1 is attached.
C3_Witness ==
    /\ Parsed /\ TreeShown
    /\ Ids = 1..5
    /\ tree.id = 1
    /\ Len(tree.children) = 2
    /\ tree.children[1].id = 2 /\ tree.children[2].id = 3
    /\ Len(tree.children[1].children) = 2
    /\ tree.children[1].children[1].id = 4 /\ tree.children[1].children[2].id = 5
    /\ tree.children[2].children = <<>>

ExpectedRoot == IF 1 \in Ids THEN 1 ELSE Min(Ids)

NoRootMessage == "Impossible de determiner la racine (id le plus petit manquant)."

\* C4 - Root selection.  When the entity map of a parsed document is not
\* empty, the load does not report that no root can be determined: it goes on
\* to build from the identifier 1 if present and else from the minimum one,
\* which is then the root of any tree it shows.
C4_RootSelection ==
    (Parsed /\ Ids # {}) =>
        /\ error # NoRootMessage
        /\ findRootId(PeopleMap) = Num(ExpectedRoot)
        /\ TreeShown => tree.id = ExpectedRoot

\* The generation the entity of this identifier stores (Null when none).
Stored(id) == PeopleMap[id].generation

\* C5 as claimed - a node whose entity stores no generation has the
\* generation of its parent node in the tree plus one (1 for the root), and
\* a node whose entity stores one keeps it.
C5_ParentGenerationPlusOne ==
    (Parsed /\ TreeShown) =>
        \A p \in TreeNodes :
            IF Stored(p.node.id).t = "num" THEN p.node.generation = Stored(p.node.id)
            ELSE IF p.depth = 1 THEN p.node.generation = Num(1)
            ELSE \E q \in TreeNodes :
                    /\ q.node.id = p.parent
                    /\ p.node.generation = Num(q.node.generation.n + 1)

\* C5 as amended - a node whose entity stores no generation has its depth
\* in the tree as generation (1 for the root, one more per level), whatever
\* its parent node carries; a node whose entity stores one keeps it.
C5_DepthGeneration ==
    (Parsed /\ TreeShown) =>
        \A p \in TreeNodes :
            IF Stored(p.node.id).t = "num" THEN p.node.generation = Stored(p.node.id)
            ELSE p.node.generation = Num(p.depth)

\* A node without a stored generation under a parent that stores another
\* generation than its depth.
C5_Witness ==
    /\ Parsed /\ TreeShown
    /\ \E p, q \in TreeNodes :
          /\ p.depth > 1 /\ q.node.id = p.parent
          /\ Stored(p.node.id).t = "null"
          /\ Stored(q.node.id).t = "num" /\ Stored(q.node.id) # Num(q.depth)
          /\ p.node.generation = Num(p.depth)

\* The last record of the normalized list with this identifier.
LastWith(id) ==
    People[CHOOSE i \in 1..Len(People) :
              People[i].id = id /\ \A j \in (i + 1)..Len(People) : People[j].id # id]

\* C6 - Duplicate identifiers.  The entity map holds one entry per distinct
\* id, the last record of that id in input order; and the count a successful
\* load surfaces is the number of distinct ids.
C6_DistinctCount ==
    Parsed =>
        /\ DOMAIN PeopleMap = Ids
        /\ \A id \in Ids : PeopleMap[id] = LastWith(id)
        /\ TreeShown => peopleCount = Cardinality(Ids)

\* C9 - The build terminates.  For the entity map of any parsed document
\* and the root the load builds from, the recursion comes back to no
\* identifier it is still building.
C9_BuildTerminates ==
    (Parsed /\ Ids # {} /\ ~noRootId(findRootId(PeopleMap))) =>
        /\ buildTree(findRootId(PeopleMap).n, PeopleMap, 1) # StackOverflow
        /\ error # "Maximum call stack size exceeded"

(***************************************************************************)
(* Load properties.                                                        *)
(***************************************************************************)
\* The ways a load fails.
LoadFailed ==
    \/ fetched.t = "rejected"
    \/ ~responseOk(fetched)
    \/ fetched.body.t = "invalid"
    \/ Len(People) = 0
    \/ ~Truthy(findRootId(PeopleMap))
    \/ buildTree(findRootId(PeopleMap).n, PeopleMap, 1).t # "person"

\* C7 - Load failure handling.  A load that failed has ended with loading
\* false, no tree and a message; a load leaves a tree only when the document
\* gave at least one entity and the node of the root was built.
C7_FailureHandling ==
    Settled =>
        /\ LoadFailed => (loading = FALSE /\ tree = Null /\ error # "")
        /\ TreeShown =>
              /\ Parsed /\ Len(People) >= 1
              /\ tree = buildTree(ExpectedRoot, PeopleMap, 1)
              /\ loading = FALSE /\ error = ""

\* The load of [{foo: 1}] has ended in the empty-dataset condition.
C7_Witness ==
    /\ Settled /\ fetched.t = "response"
    /\ fetched.body = Arr(<<Obj([foo |-> Num(1)])>>)
    /\ error = "Aucune entree valide trouvee dans ce fichier."
    /\ tree = Null /\ loading = FALSE

LoadEnds == pc = "fetching" /\ pc' = "settled"

OneExpanded(ov) == Cardinality(DOMAIN ov) = 1 /\ \A k \in DOMAIN ov : ov[k] = "expand"

Changed(ov1, ov2) ==
    {k \in DOMAIN ov1 \cup DOMAIN ov2 : overrideOf(ov1, k) # overrideOf(ov2, k)}

BetweenLoads ==
    ~LoadEnds =>
        /\ DOMAIN overrides \subseteq DOMAIN overrides'
        /\ Cardinality(Changed(overrides, overrides')) <= 1

\* C8 as claimed - every load, whatever its outcome, leaves the override
\* mapping at exactly {root: expand}; between loads a step changes at most one
\* entry and removes none.
C8_ResetOnEveryLoad ==
    [][(LoadEnds => OneExpanded(overrides')) /\ BetweenLoads]_vars

\* C8 as amended - a load that succeeds leaves the override mapping at
\* exactly {root: expand} and a load that fails leaves it as it was; between
\* loads a step changes at most one entry and removes none.
C8_ResetOnSuccess ==
    [][/\ LoadEnds =>
            IF tree'.t = "person"
            THEN overrides' = [k \in {tree'.id} |-> "expand"] /\ OneExpanded(overrides')
            ELSE overrides' = overrides
       /\ BetweenLoads]_vars

\* Toggles have added entries to the mapping a load left.
C8_Witness ==
    /\ TreeShown
    /\ Cardinality(DOMAIN overrides) >= 3
    /\ overrides[tree.id] = "collapse"

====
